---- MODULE Spec2Model ----
(***************************************************************************)
(* Model of the ping probe: the reply classifier (_raise_for_status), the  *)
(* echo session (async_ping2) of lib/icmp.py, and the check adapter        *)
(* (get_item, get_state, CheckPing.run) of lib/check/ping.py.              *)
(*                                                                         *)
(* Decimal numbers are rationals [n |-> numerator, d |-> denominator] in   *)
(* lowest terms, so that the conversions (seconds -> milliseconds in the   *)
(* session, milliseconds -> seconds in the report) are real operations.    *)
(***************************************************************************)
EXTENDS Integers, Sequences, FiniteSets, TLC

\* ------------------------------------------------------------------ bounds

\* Largest count a session is started with / a configuration names.
MaxCount == 2

\* Reply delays offered by the network: 1..MaxElapsed milliseconds.
MaxElapsed == 2

\* Largest ICMP code drawn for the classifier.
MaxCode == 1

\* ------------------------------------------------------------ label tables

None == "None"

MESSAGES_V6 ==
    (0 :> "Reserved" @@ 1 :> "Destination Unreachable" @@ 2 :> "Packet Too Big"
     @@ 3 :> "Time Exceeded" @@ 4 :> "Parameter Problem"
     @@ 128 :> "Echo Request" @@ 129 :> "Echo Reply"
     @@ 130 :> "Multicast Listener Query" @@ 131 :> "Multicast Listener Report"
     @@ 132 :> "Multicast Listener Done" @@ 133 :> "Router Solicitation"
     @@ 134 :> "Router Advertisement" @@ 135 :> "Neighbor Solicitation"
     @@ 136 :> "Neighbor Advertisement" @@ 137 :> "Redirect Message"
     @@ 138 :> "Router Renumbering" @@ 139 :> "ICMP Node Information Query"
     @@ 140 :> "ICMP Node Information Response"
     @@ 141 :> "Inverse Neighbor Discovery" @@ 142 :> "Inverse Neighbor Discovery"
     @@ 144 :> "Home Agent Address Discovery" @@ 145 :> "Home Agent Address Discovery"
     @@ 146 :> "Mobile Prefix Solicitation" @@ 147 :> "Mobile Prefix Advertisement"
     @@ 157 :> "Duplicate Address Request Code Suffix"
     @@ 158 :> "Duplicate Address Confirmation Code Suffix"
     @@ 160 :> "Extended Echo Request" @@ 161 :> "Extended Echo Reply")

MESSAGES_V4 ==
    (0 :> "Echo Reply" @@ 1 :> "Unassigned" @@ 2 :> "Unassigned"
     @@ 3 :> "Destination Unreachable" @@ 4 :> "Source Quench (Deprecated)"
     @@ 5 :> "Redirect" @@ 6 :> "Alternate Host Address (Deprecated)"
     @@ 7 :> "Unassigned" @@ 8 :> "Echo" @@ 9 :> "Router Advertisement"
     @@ 10 :> "Router Selection" @@ 11 :> "Time Exceeded"
     @@ 12 :> "Parameter Problem" @@ 13 :> "Timestamp" @@ 14 :> "Timestamp Reply"
     @@ 15 :> "Information Request (Deprecated)"
     @@ 16 :> "Information Reply (Deprecated)"
     @@ 17 :> "Address Mask Request (Deprecated)"
     @@ 18 :> "Address Mask Reply (Deprecated)"
     @@ 19 :> "Reserved (for Security)")
    @@ [t \in 20..29 |-> "Reserved (for Robustness Experiment)"]
    @@ (30 :> "Traceroute (Deprecated)"
     @@ 31 :> "Datagram Conversion Error (Deprecated)"
     @@ 32 :> "Mobile Host Redirect (Deprecated)"
     @@ 33 :> "IPv6 Where-Are-You (Deprecated)"
     @@ 34 :> "IPv6 I-Am-Here (Deprecated)"
     @@ 35 :> "Mobile Registration Request (Deprecated)"
     @@ 36 :> "Mobile Registration Reply (Deprecated)"
     @@ 37 :> "Domain Name Request (Deprecated)"
     @@ 38 :> "Domain Name Reply (Deprecated)"
     @@ 39 :> "SKIP (Deprecated)" @@ 40 :> "Photuris"
     @@ 41 :> "ICMP messages utilized by experimental mobility protocols such as Seamoby"
     @@ 42 :> "Extended Echo Request" @@ 43 :> "Extended Echo Reply"
     @@ 253 :> "RFC3692-style Experiment 1"
     @@ 254 :> "RFC3692-style Experiment 2")

\* dict.get(key, default)
DictGet(table, key, default) ==
    IF key \in DOMAIN table THEN table[key] ELSE default

\* ------------------------------------------------------- reply classifier

\* The exception classes of the ICMP library that derive from ICMPLibError:
\* the per-attempt handler `except ICMPLibError: pass` absorbs exactly these.
\* OSError stands for any exception outside that hierarchy.
ICMPLibErrors ==
    {"ICMPv6DestinationUnreachable", "ICMPv6TimeExceeded",
     "ICMPv4DestinationUnreachable", "ICMPv4TimeExceeded", "ICMPError",
     "TimeoutExceeded", "ICMPSocketError", "SocketPermissionError",
     "SocketAddressError", "NameLookupError"}

Exceptions == ICMPLibErrors \cup {"OSError"}

\* Mutant: as in the ICMP library's own raise_for_status, a redirect raises.
RaisedForRedirectRaises(family, type) ==
    IF family = 6 /\ type = 1 THEN "ICMPv6DestinationUnreachable"
    ELSE IF family = 6 /\ type = 3 THEN "ICMPv6TimeExceeded"
    ELSE IF family # 6 /\ type = 3 THEN "ICMPv4DestinationUnreachable"
    ELSE IF family # 6 /\ type = 11 THEN "ICMPv4TimeExceeded"
    ELSE IF \/ (family = 4 /\ type # 0)
            \/ (family = 6 /\ type # 129) THEN "ICMPError"
    ELSE None

\* The exception _raise_for_status raises for a reply, None when it returns.
RaisedFor(family, type) ==
    IF family = 6 /\ type = 1 THEN "ICMPv6DestinationUnreachable"
    ELSE IF family = 6 /\ type = 3 THEN "ICMPv6TimeExceeded"
    ELSE IF family # 6 /\ type = 3 THEN "ICMPv4DestinationUnreachable"
    ELSE IF family # 6 /\ type = 11 THEN "ICMPv4TimeExceeded"
    ELSE IF \/ (family = 4 /\ type # 0 /\ type # 5)
            \/ (family = 6 /\ type # 129 /\ type # 137) THEN "ICMPError"
    ELSE None

\* The label _raise_for_status appends, before it decides to raise.
LabelFor(family, type) ==
    IF family = 6 THEN DictGet(MESSAGES_V6, type, "Unassigned")
    ELSE DictGet(MESSAGES_V4, type, "Unassigned")

\* Mutant: the reply is classified and no label is recorded.
RaiseForStatusNoLabel(family, type, code, catch_messages) ==
    [messages |-> catch_messages,
     raised   |-> RaisedFor(family, type),
     args     |-> <<>>]

\* Mutant: the label is appended after the checks, so only when none raises.
RaiseForStatusLabelLast(family, type, code, catch_messages) ==
    [messages |-> IF RaisedFor(family, type) = None
                  THEN Append(catch_messages, LabelFor(family, type))
                  ELSE catch_messages,
     raised   |-> RaisedFor(family, type),
     args     |-> IF RaisedFor(family, type) = "ICMPError"
                  THEN <<type, code>>
                  ELSE <<>>]

\* _raise_for_status(reply, catch_messages): the list after the call, the
\* exception raised (None: normal return) and the (type, code) that the
\* message of an ICMPError names.
RaiseForStatus(family, type, code, catch_messages) ==
    [messages |-> Append(catch_messages, LabelFor(family, type)),
     raised   |-> RaisedFor(family, type),
     args     |-> IF RaisedFor(family, type) = "ICMPError"
                  THEN <<type, code>>
                  ELSE <<>>]

\* ---------------------------------------------------------------- numbers

RECURSIVE GCD(_, _)
GCD(a, b) == IF b = 0 THEN a ELSE GCD(b, a % b)

\* The rational n / d (n >= 0, d > 0) in lowest terms.
Rat(n, d) == [n |-> n \div GCD(n, d), d |-> d \div GCD(n, d)]

RatLeq(a, b) == a.n * b.d <= b.n * a.d

RatEq(a, b) == a.n * b.d = b.n * a.d

\* Mutant: the factor is left out, the value stays in seconds.
Times1000Missing(x) == x

\* x * 1000
Times1000(x) == Rat(x.n * 1000, x.d)

\* x / 1000
Div1000(x) == Rat(x.n, x.d * 1000)

Range(s) == {s[i] : i \in DOMAIN s}

\* min(rtts), max(rtts) of a non-empty list
MinOf(s) == CHOOSE x \in Range(s) : \A y \in Range(s) : RatLeq(x, y)

MaxOf(s) == CHOOSE x \in Range(s) : \A y \in Range(s) : RatLeq(y, x)

\* ------------------------------------------------------------ environment

V4Address == "192.0.2.1"

V6Address == "2001:db8::1"

Addresses == {V4Address, V6Address}

\* A name that is no IP address.
HostName == "asset.example"

\* The address argument: 'IP address, hostname or FQDN'.
Targets == Addresses \cup {HostName}

\* is_ipv4_address(address)
IsIPv4Address(a) == a = V4Address

\* is_ipv6_address(address)
IsIPv6Address(a) == a = V6Address

\* is_hostname(address)
IsHostname(a) == ~IsIPv4Address(a) /\ ~IsIPv6Address(a)

\* What async_resolve gives for a name: a list of addresses, or <<>> when it
\* raises NameLookupError. It is not called for an IP address.
Resolutions(a) ==
    IF IsHostname(a)
    THEN {<<>>, <<V4Address>>, <<V6Address, V4Address>>}
    ELSE {<<>>}

\* The address the requests of a call go to, if it gets as far as a socket.
Destination(a, resolved) == IF IsHostname(a) THEN resolved[1] ELSE a

\* The ICMP types the network answers with, per family: echo reply,
\* redirect, destination unreachable, time exceeded, parameter problem.
ReplyTypes(family) ==
    IF family = 6 THEN {129, 137, 1, 3, 4} ELSE {0, 5, 3, 11, 12}

\* The types among them for which _raise_for_status returns: only for these
\* is the time of the reply read.
TimedTypes(family) == IF family = 6 THEN {129, 137} ELSE {0, 5}

\* What happens to one sequence: the send raises `exc`; or the request is
\* sent and the receive raises `exc` (TimeoutExceeded: no reply within the
\* timeout); or a reply of `type` arrives `elapsed` milliseconds after the
\* request was sent (1 ms where the time is not read).
NetOutcomes(family) ==
    [kind : {"send_raises"}, exc : {"ICMPSocketError", "OSError"},
     type : {0}, elapsed : {0}]
    \cup
    [kind : {"receive_raises"},
     exc : {"TimeoutExceeded", "ICMPSocketError", "OSError"},
     type : {0}, elapsed : {0}]
    \cup
    [kind : {"reply"}, exc : {None},
     type : TimedTypes(family), elapsed : 1..MaxElapsed]
    \cup
    [kind : {"reply"}, exc : {None},
     type : ReplyTypes(family) \ TimedTypes(family), elapsed : {1}]

\* All lists of n outcomes.
NetBehaviours(family, n) == [1..n -> NetOutcomes(family)]

\* --------------------------------------------------------------- the state

VARIABLES
    address,         \* the address argument of the call, then the address
                     \* its requests go to
    dns,             \* what async_resolve gives for the argument
    net,             \* net[s + 1]: what the network does with sequence s
    pc,              \* where async_ping2 stands
    count,           \* its count argument
    sequence,        \* the loop variable
    packets_sent,
    rtts,            \* list of round-trip times (ms)
    catch_messages,  \* the caller's list of labels
    sock,            \* "none", "open" or "closed"
    error,           \* the exception async_ping2 ended with, or None
    host,            \* <<the Host it returned>>, or <<>>
    id,              \* <<the identifier of its requests>>, or <<>> (None)
    log,             \* its interval waits, the requests it sent and the
                     \* attempts it resolved, in order
    awaiting,        \* the requests whose reply the socket is waiting for
    cancelled,       \* a cancellation was delivered to it
    parked,          \* the locals of the other session of the event loop
    me,              \* which of the two sessions is the running one
    config,          \* the configuration of the check invocation
    chk_pc,          \* where CheckPing.run stands
    chk_error,       \* the exception it ended with, or None
    chk_result,      \* <<the state dict it built>>, or <<>>
    cls              \* the classifier applied to one drawn reply

sess_vars == <<pc, count, sequence, packets_sent, rtts, catch_messages, sock,
               error, host, id, log, awaiting, cancelled>>

loop_vars == <<parked, me>>

chk_vars == <<config, chk_pc, chk_error, chk_result>>

vars == <<address, dns, net, sess_vars, loop_vars, chk_vars, cls>>

\* _Socket = ICMPv6Socket if is_ipv6_address(address) else ICMPv4Socket
Family == IF IsIPv6Address(address) THEN 6 ELSE 4

\* ------------------------------------------------------------ Host (icmplib)

\* Host(address, packets_sent, rtts) with the properties the adapter reads.
Host(a, sent, rs) ==
    [address          |-> a,
     packets_sent     |-> sent,
     rtts             |-> rs,
     packets_received |-> Len(rs),
     is_alive         |-> Len(rs) > 0,
     min_rtt          |-> IF Len(rs) > 0 THEN MinOf(rs) ELSE Rat(0, 1),
     max_rtt          |-> IF Len(rs) > 0 THEN MaxOf(rs) ELSE Rat(0, 1)]

\* ------------------------------------------------- the session: async_ping2

\* Mutant: the interval wait comes before every sequence, the first too.
LoopPcWaitsFirst(seq, c) ==
    IF seq < c THEN "sleep" ELSE "exit"

\* Where the loop `for sequence in range(count)` goes with its variable at
\* seq: the interval wait of a later sequence, the send of sequence 0, or
\* out of the loop.
LoopPc(seq, c) ==
    IF seq < c THEN (IF seq > 0 THEN "sleep" ELSE "send") ELSE "exit"

\* Mutant: the handler is `except TimeoutExceeded`, so an ICMP error reply
\* ends the session.
ExceptTimeoutOnly(exc) ==
    IF exc = "TimeoutExceeded"
    THEN /\ sequence' = sequence + 1
         /\ pc' = LoopPc(sequence + 1, count)
         /\ UNCHANGED <<sock, error>>
    ELSE /\ sock' = "closed"
         /\ error' = exc
         /\ pc' = "aborted"
         /\ UNCHANGED sequence

\* Mutant: the socket is not closed when an exception leaves the block.
PropagateSocketLeftOpen(exc) ==
    /\ error' = exc
    /\ pc' = "aborted"
    /\ UNCHANGED <<sequence, sock>>

\* An exception leaves the with block, whose exit closes the socket, and
\* then async_ping2.
Propagate(exc) ==
    /\ sock' = "closed"
    /\ error' = exc
    /\ pc' = "aborted"
    /\ UNCHANGED sequence

\* Mutant: the handler of the attempt catches every exception.
ExceptCatchesAll(exc) ==
    /\ sequence' = sequence + 1
    /\ pc' = LoopPc(sequence + 1, count)
    /\ UNCHANGED <<sock, error>>

\* Mutant: after a library error the same sequence is tried again.
ExceptRetries(exc) ==
    IF exc \in ICMPLibErrors
    THEN /\ pc' = "send"
         /\ UNCHANGED <<sequence, sock, error>>
    ELSE Propagate(exc)

\* An exception raised inside the try block of the current attempt:
\* `except ICMPLibError: pass` goes on with the next sequence; anything else
\* leaves the with block (the socket is closed) and the function.
Except(exc) ==
    IF exc \in ICMPLibErrors
    THEN /\ sequence' = sequence + 1
         /\ pc' = LoopPc(sequence + 1, count)
         /\ UNCHANGED <<sock, error>>
    ELSE Propagate(exc)

\* unique_identifier(): an identifier the library makes up.
UniqueIdentifier == 4660

\* An identifier a caller names.
GivenId == 7

\* The id argument of a call: None, 0 or an identifier.
IdArgs == {<<>>, <<0>>, <<GivenId>>}

\* id = id or unique_identifier()
IdOr(ident) ==
    IF ident = <<>> THEN <<UniqueIdentifier>>
    ELSE IF ident[1] = 0 THEN <<UniqueIdentifier>>
    ELSE ident

\* ICMPRequest(destination=address, id=id, sequence=sequence)
ICMPRequest(dest, ident, seq) ==
    [destination |-> dest, id |-> ident, sequence |-> seq]

\* The entries of the log.
Waited(seq) == [ev |-> "sleep", sequence |-> seq, id |-> id]

Sent(seq) == [ev |-> "send", sequence |-> seq, id |-> id]

Resolved(seq) == [ev |-> "resolved", sequence |-> seq, id |-> id]

\* The address is an IP address by now: the identifier is fixed, the
\* counters are set and the socket is created.
Opened(c, ident) ==
    /\ count' = c
    /\ id' = IdOr(ident)
    /\ packets_sent' = 0
    /\ rtts' = <<>>
    /\ sock' = "open"
    /\ sequence' = 0
    /\ pc' = LoopPc(0, c)
    /\ log' = <<>>
    /\ awaiting' = {}
    /\ UNCHANGED <<error, cancelled>>

\* The same, and the socket constructor raises: the fault leaves
\* async_ping2 at once.
OpenFails(c, ident, exc) ==
    /\ count' = c
    /\ id' = IdOr(ident)
    /\ packets_sent' = 0
    /\ rtts' = <<>>
    /\ error' = exc
    /\ pc' = "aborted"
    /\ UNCHANGED <<sequence, sock, log, awaiting, cancelled>>

\* async_ping2 is called with an IP address, count c and id ident on a fresh
\* list; the socket is created.
OpenSocket(c, ident) ==
    /\ pc = "idle" /\ chk_pc = "idle"
    /\ ~IsHostname(address)
    /\ Opened(c, ident)
    /\ UNCHANGED <<address, dns, net, catch_messages, host, loop_vars,
                   chk_vars, cls>>

\* The same call, and the socket constructor raises.
OpenSocketRaises(c, ident, exc) ==
    /\ pc = "idle" /\ chk_pc = "idle"
    /\ ~IsHostname(address)
    /\ OpenFails(c, ident, exc)
    /\ UNCHANGED <<address, dns, net, catch_messages, host, loop_vars,
                   chk_vars, cls>>

\* async_ping2 is called with a hostname: it awaits async_resolve, with no
\* socket and none of its locals set yet.
AwaitResolve(c, ident) ==
    /\ pc = "idle" /\ chk_pc = "idle"
    /\ IsHostname(address)
    /\ count' = c
    /\ id' = ident
    /\ pc' = "resolve"
    /\ UNCHANGED <<address, dns, net, sequence, packets_sent, rtts,
                   catch_messages, sock, error, host, log, awaiting,
                   cancelled, loop_vars, chk_vars, cls>>

\* async_resolve returns: address = (...)[0], and the socket is created.
ResolveReturns ==
    /\ pc = "resolve"
    /\ dns # <<>>
    /\ address' = dns[1]
    /\ Opened(count, id)
    /\ UNCHANGED <<dns, net, catch_messages, host, loop_vars, chk_vars, cls>>

\* async_resolve returns, and the socket constructor raises.
ResolveReturnsOpenRaises(exc) ==
    /\ pc = "resolve"
    /\ dns # <<>>
    /\ address' = dns[1]
    /\ OpenFails(count, id, exc)
    /\ UNCHANGED <<dns, net, catch_messages, host, loop_vars, chk_vars, cls>>

\* async_resolve raises NameLookupError, which leaves async_ping2.
ResolveRaises ==
    /\ pc = "resolve"
    /\ dns = <<>>
    /\ error' = "NameLookupError"
    /\ pc' = "aborted"
    /\ UNCHANGED <<address, dns, net, count, sequence, packets_sent, rtts,
                   catch_messages, sock, host, id, log, awaiting, cancelled,
                   loop_vars, chk_vars, cls>>

\* await asyncio.sleep(interval), before every sequence but the first.
Sleep ==
    /\ pc = "sleep"
    /\ pc' = "send"
    /\ log' = Append(log, Waited(sequence))
    /\ UNCHANGED <<address, dns, net, count, sequence, packets_sent, rtts,
                   catch_messages, sock, error, host, id, awaiting, cancelled,
                   loop_vars, chk_vars, cls>>

\* Mutant: the send is not counted.
SentAfterSendNotCounted(n) == n

\* packets_sent += 1
SentAfterSend(n) == n + 1

\* sock.send(request); packets_sent += 1
Send ==
    /\ pc = "send"
    /\ LET o == net[sequence + 1] IN
       IF o.kind = "send_raises"
       THEN /\ Except(o.exc)
            /\ log' = Append(log, Resolved(sequence))
            /\ UNCHANGED <<packets_sent, awaiting>>
       ELSE /\ packets_sent' = SentAfterSend(packets_sent)
            /\ pc' = "recv"
            /\ log' = Append(log, Sent(sequence))
            /\ awaiting' =
                 awaiting \cup {ICMPRequest(address, id, sequence)}
            /\ UNCHANGED <<sequence, sock, error>>
    /\ UNCHANGED <<address, dns, net, count, rtts, catch_messages, host, id,
                   cancelled, loop_vars, chk_vars, cls>>

\* rtt = (reply.time - request.time) * 1000, for a reply that arrives
\* `elapsed` milliseconds after the request was sent.
Rtt(elapsed) == Times1000(Rat(elapsed, 1000))

\* Mutant: the socket goes on waiting for the reply to a request whose
\* receive is over.
ReceiveOverStillWaiting(waiting, request) == waiting

\* sock.receive(request, timeout) is over, with a reply or an exception:
\* the socket no longer waits for the reply to `request`.
ReceiveOver(waiting, request) == waiting \ {request}

\* reply = await sock.receive(request, timeout);
\* _raise_for_status(reply, catch_messages); rtts.append(rtt)
Receive ==
    /\ pc = "recv"
    /\ LET o == net[sequence + 1] IN
       IF o.kind = "receive_raises"
       THEN /\ Except(o.exc)
            /\ UNCHANGED <<rtts, catch_messages>>
       ELSE LET r == RaiseForStatus(Family, o.type, 0, catch_messages) IN
            /\ catch_messages' = r.messages
            /\ IF r.raised = None
               THEN /\ rtts' = Append(rtts, Rtt(o.elapsed))
                    /\ sequence' = sequence + 1
                    /\ pc' = LoopPc(sequence + 1, count)
                    /\ UNCHANGED <<sock, error>>
               ELSE /\ Except(r.raised)
                    /\ UNCHANGED rtts
    /\ log' = Append(log, Resolved(sequence))
    /\ awaiting' = ReceiveOver(awaiting, ICMPRequest(address, id, sequence))
    /\ UNCHANGED <<address, dns, net, count, packets_sent, host, id, cancelled,
                   loop_vars, chk_vars, cls>>

\* The loop is exhausted: the with block closes the socket and
\* Host(address, packets_sent, rtts) is returned.
Return ==
    /\ pc = "exit"
    /\ sock' = "closed"
    /\ host' = <<Host(address, packets_sent, rtts)>>
    /\ pc' = "done"
    /\ UNCHANGED <<address, dns, net, count, sequence, packets_sent, rtts,
                   catch_messages, error, id, log, awaiting, cancelled,
                   loop_vars, chk_vars, cls>>

\* The task running async_ping2 is cancelled while it is suspended:
\* CancelledError is raised at the await. async_resolve stands before the
\* with block, asyncio.sleep inside the block and outside the try
\* statement, sock.receive inside the try statement.
Cancel ==
    /\ pc \in {"resolve", "sleep", "recv"}
    /\ cancelled' = TRUE
    /\ IF pc = "resolve"
       THEN /\ error' = "CancelledError"
            /\ pc' = "aborted"
            /\ UNCHANGED <<sequence, sock, log, awaiting>>
       ELSE IF pc = "sleep"
       THEN /\ Propagate("CancelledError")
            /\ UNCHANGED <<log, awaiting>>
       ELSE /\ Except("CancelledError")
            /\ log' = Append(log, Resolved(sequence))
            /\ awaiting' =
                 ReceiveOver(awaiting, ICMPRequest(address, id, sequence))
    /\ UNCHANGED <<address, dns, net, count, packets_sent, rtts, catch_messages,
                   host, id, loop_vars, chk_vars, cls>>

SessionNext ==
    \/ \E c \in 0..MaxCount : \E ident \in IdArgs : OpenSocket(c, ident)
    \/ \E c \in 0..MaxCount : \E ident \in IdArgs :
         \E exc \in {"SocketPermissionError", "SocketAddressError"} :
            OpenSocketRaises(c, ident, exc)
    \/ \E c \in 0..MaxCount : \E ident \in IdArgs : AwaitResolve(c, ident)
    \/ ResolveReturns
    \/ \E exc \in {"SocketPermissionError", "SocketAddressError"} :
         ResolveReturnsOpenRaises(exc)
    \/ ResolveRaises
    \/ Sleep
    \/ Send
    \/ Receive
    \/ Return
    \/ Cancel

\* ------------------------------------------- the check adapter: CheckPing

DEFAULT_PING_COUNT == 5

DEFAULT_PING_INTERVAL == 1

DEFAULT_PING_TIMEOUT == 10

TYPE_NAME == "icmp"

ITEM_NAME == "ping"

\* asset.name: the name of the asset, which resolves to `address`.
AssetName == "asset.example"

\* The configurations an invocation is given: a dict in which each of the
\* keys may be absent.
Opt(key, values) == {<<>>} \cup {key :> v : v \in values}

Configs ==
    {c @@ i : c \in Opt("count", 0..MaxCount \cup {10}),
              i \in Opt("interval", {0, 9})}
    \cup
    {a @@ c : a \in Opt("address", {"", address}),
              c \in Opt("count", {1})}

\* address = config.get('address'); if not address: address = asset.name
ResolveAddress(cfg) ==
    IF "address" \in DOMAIN cfg /\ cfg["address"] # ""
    THEN cfg["address"] ELSE AssetName

\* check_config(count, interval): both within 1..9, else it raises.
CheckConfigOk(cnt, interval) ==
    /\ cnt \in 1..9
    /\ interval \in 1..9

\* Mutant: the two times are taken from the wrong fields.
GetItemTimesSwapped(itm, name, addr, cnt, messages) ==
    [name     |-> name,
     address  |-> addr,
     count    |-> cnt,
     dropped  |-> itm.packets_sent - itm.packets_received,
     maxTime  |-> IF itm.is_alive THEN <<Div1000(itm.min_rtt)>> ELSE <<>>,
     minTime  |-> IF itm.is_alive THEN <<Div1000(itm.max_rtt)>> ELSE <<>>,
     messages |-> messages]

\* get_item(itm, name, address, count, messages)
GetItem(itm, name, addr, cnt, messages) ==
    [name     |-> name,
     address  |-> addr,
     count    |-> cnt,
     dropped  |-> itm.packets_sent - itm.packets_received,
     maxTime  |-> IF itm.is_alive THEN <<Div1000(itm.max_rtt)>> ELSE <<>>,
     minTime  |-> IF itm.is_alive THEN <<Div1000(itm.min_rtt)>> ELSE <<>>,
     messages |-> messages]

\* get_state(data, address, count, messages)
GetState(data, addr, cnt, messages) ==
    (TYPE_NAME :> <<GetItem(data, ITEM_NAME, addr, cnt, messages)>>)

\* The Itm object CheckPing.run fills in, in place of a probe session.
Itm(cnt) ==
    [max_rtt          |-> Rat(65888, 10),
     min_rtt          |-> Rat(41243, 10),
     is_alive         |-> TRUE,
     packets_received |-> cnt,
     packets_sent     |-> cnt]

\* The list CheckPing.run hands to get_state.
RunMessages == <<"foo", "bar">>

\* data.packets_sent > 0 and data.packets_received == 0
AllDropped(data) == data.packets_sent > 0 /\ data.packets_received = 0

\* Mutant: the report is built first and the configuration validated last.
CheckPingRunValidatesLast(cfg) ==
    /\ chk_pc = "idle" /\ pc = "idle"
    /\ config' = cfg
    /\ LET addr     == ResolveAddress(cfg)
           cnt      == DictGet(cfg, "count", DEFAULT_PING_COUNT)
           interval == DictGet(cfg, "interval", DEFAULT_PING_INTERVAL)
           data     == Itm(cnt)
           result   == GetState(data, addr, cnt, RunMessages)
       IN  /\ chk_result' = <<result>>
           /\ IF AllDropped(data)
              THEN chk_pc' = "raised" /\ chk_error' = "NoCountException"
              ELSE IF ~CheckConfigOk(cnt, interval)
              THEN chk_pc' = "raised" /\ chk_error' = "ConfigError"
              ELSE chk_pc' = "returned" /\ chk_error' = None
    /\ UNCHANGED <<address, dns, net, sess_vars, loop_vars, cls>>

\* CheckPing.run(asset, local_config, config): it has no suspension point,
\* so one invocation is one step.
CheckPingRun(cfg) ==
    /\ chk_pc = "idle" /\ pc = "idle"
    /\ config' = cfg
    /\ LET addr     == ResolveAddress(cfg)
           cnt      == DictGet(cfg, "count", DEFAULT_PING_COUNT)
           interval == DictGet(cfg, "interval", DEFAULT_PING_INTERVAL)
           timeout  == DictGet(cfg, "timeout", DEFAULT_PING_TIMEOUT)
           data     == Itm(cnt)
           result   == GetState(data, addr, cnt, RunMessages)
       IN  IF ~CheckConfigOk(cnt, interval)
           THEN /\ chk_pc' = "raised"
                /\ chk_error' = "ConfigError"
                /\ chk_result' = <<>>
           ELSE IF AllDropped(data)
           THEN /\ chk_pc' = "raised"
                /\ chk_error' = "NoCountException"
                /\ chk_result' = <<result>>
           ELSE /\ chk_pc' = "returned"
                /\ chk_error' = None
                /\ chk_result' = <<result>>
    /\ UNCHANGED <<address, dns, net, sess_vars, loop_vars, cls>>

CheckNext == \E cfg \in Configs : CheckPingRun(cfg)

\* ------------------------------------------------------------ specification

Init ==
    /\ address \in Targets
    /\ dns \in Resolutions(address)
    /\ net \in IF IsHostname(address) /\ dns = <<>>
              THEN {<<>>}
              ELSE NetBehaviours(
                     IF IsIPv6Address(Destination(address, dns)) THEN 6 ELSE 4,
                     MaxCount)
    /\ pc = "idle"
    /\ count = 0
    /\ sequence = 0
    /\ packets_sent = 0
    /\ rtts = <<>>
    /\ catch_messages = <<>>
    /\ sock = "none"
    /\ error = None
    /\ host = <<>>
    /\ id = <<>>
    /\ log = <<>>
    /\ awaiting = {}
    /\ cancelled = FALSE
    /\ parked = <<>>
    /\ me = 1
    /\ config = <<>>
    /\ chk_pc = "idle"
    /\ chk_error = None
    /\ chk_result = <<>>
    /\ cls = <<>>

Next == SessionNext \/ CheckNext

Spec == Init /\ [][Next]_vars

\* ------------------------------------- specification of the classifier alone

\* The type field of an ICMP header is one byte.
ICMPTypes == 0..255

\* _raise_for_status applied to the drawn reply.
Classify ==
    /\ ~cls.called
    /\ LET r == RaiseForStatus(cls.family, cls.type, cls.code, cls.before) IN
       cls' = [cls EXCEPT !.called = TRUE, !.messages = r.messages,
                          !.raised = r.raised, !.args = r.args]
    /\ UNCHANGED <<address, dns, net, sess_vars, loop_vars, chk_vars>>

InitClassify ==
    /\ cls \in [family : {4, 6}, type : ICMPTypes, code : 0..MaxCode,
                before : {<<>>, <<"Echo Reply">>}, called : {FALSE},
                messages : {<<>>}, raised : {None}, args : {<<>>}]
    /\ address = V4Address
    /\ dns = <<>>
    /\ net = <<>>
    /\ pc = "idle"
    /\ count = 0
    /\ sequence = 0
    /\ packets_sent = 0
    /\ rtts = <<>>
    /\ catch_messages = <<>>
    /\ sock = "none"
    /\ error = None
    /\ host = <<>>
    /\ id = <<>>
    /\ log = <<>>
    /\ awaiting = {}
    /\ cancelled = FALSE
    /\ parked = <<>>
    /\ me = 1
    /\ config = <<>>
    /\ chk_pc = "idle"
    /\ chk_error = None
    /\ chk_result = <<>>

NextClassify == Classify

SpecClassify == InitClassify /\ [][NextClassify]_vars

\* ---------------------------------------------- two calls on one event loop

\* The parameters and the local variables of the running call of
\* async_ping2, with the behaviour of the network towards its address.
Locals ==
    [address        |-> address,
     dns            |-> dns,
     net            |-> net,
     pc             |-> pc,
     count          |-> count,
     sequence       |-> sequence,
     packets_sent   |-> packets_sent,
     rtts           |-> rtts,
     catch_messages |-> catch_messages,
     sock           |-> sock,
     error          |-> error,
     host           |-> host,
     id             |-> id,
     log            |-> log,
     awaiting       |-> awaiting,
     cancelled      |-> cancelled]

\* Mutant: both calls append to one list of messages (a list that belongs to
\* the module, or to the function as a default argument).
ResumeSharedMessages(l) ==
    /\ address' = l.address
    /\ dns' = l.dns
    /\ net' = l.net
    /\ pc' = l.pc
    /\ count' = l.count
    /\ sequence' = l.sequence
    /\ packets_sent' = l.packets_sent
    /\ rtts' = l.rtts
    /\ catch_messages' = catch_messages
    /\ sock' = l.sock
    /\ error' = l.error
    /\ host' = l.host
    /\ id' = l.id
    /\ log' = l.log
    /\ awaiting' = l.awaiting
    /\ cancelled' = l.cancelled

\* The event loop runs the call whose parameters and locals are l.
Resume(l) ==
    /\ address' = l.address
    /\ dns' = l.dns
    /\ net' = l.net
    /\ pc' = l.pc
    /\ count' = l.count
    /\ sequence' = l.sequence
    /\ packets_sent' = l.packets_sent
    /\ rtts' = l.rtts
    /\ catch_messages' = l.catch_messages
    /\ sock' = l.sock
    /\ error' = l.error
    /\ host' = l.host
    /\ id' = l.id
    /\ log' = l.log
    /\ awaiting' = l.awaiting
    /\ cancelled' = l.cancelled

\* The event loop passes control to the other call. It can do so only while
\* the running one is suspended at an await (async_resolve, asyncio.sleep,
\* sock.receive),
\* has not been called yet, or has ended.
Switch ==
    /\ pc \in {"idle", "resolve", "sleep", "recv", "done", "aborted"}
    /\ parked' = Locals
    /\ me' = 3 - me
    /\ Resume(parked)
    /\ UNCHANGED <<chk_vars, cls>>

\* What the network does to the requests of a call in the two-call runs: a
\* timeout, a success reply, or a destination-unreachable reply.
TwoOutcomes(family) ==
    {o \in NetOutcomes(family) :
        \/ o.kind = "receive_raises" /\ o.exc = "TimeoutExceeded"
        \/ /\ o.kind = "reply"
           /\ o.type \in (IF family = 6 THEN {129, 1} ELSE {0, 3})
           /\ o.type \in TimedTypes(family) =>
                o.elapsed = (IF family = 6 THEN MaxElapsed ELSE 1)}

\* Two calls, one to an IPv4 address and one to a name that resolves to an
\* IPv6 address, neither started.
InitTwo ==
    /\ address = V4Address
    /\ dns = <<>>
    /\ net \in [1..MaxCount -> TwoOutcomes(4)]
    /\ pc = "idle"
    /\ count = 0
    /\ sequence = 0
    /\ packets_sent = 0
    /\ rtts = <<>>
    /\ catch_messages = <<>>
    /\ sock = "none"
    /\ error = None
    /\ host = <<>>
    /\ id = <<>>
    /\ log = <<>>
    /\ awaiting = {}
    /\ cancelled = FALSE
    /\ \E n \in [1..MaxCount -> TwoOutcomes(6)] :
          parked = [address        |-> HostName,
                    dns            |-> <<V6Address, V4Address>>,
                    net            |-> n,
                    pc             |-> "idle",
                    count          |-> 0,
                    sequence       |-> 0,
                    packets_sent   |-> 0,
                    rtts           |-> <<>>,
                    catch_messages |-> <<>>,
                    sock           |-> "none",
                    error          |-> None,
                    host           |-> <<>>,
                    id             |-> <<>>,
                    log            |-> <<>>,
                    awaiting       |-> {},
                    cancelled      |-> FALSE]
    /\ me = 1
    /\ config = <<>>
    /\ chk_pc = "idle"
    /\ chk_error = None
    /\ chk_result = <<>>
    /\ cls = <<>>

NextTwo ==
    \/ \E c \in {MaxCount} : OpenSocket(c, <<>>)
    \/ \E c \in {MaxCount} : AwaitResolve(c, <<GivenId>>)
    \/ ResolveReturns
    \/ Sleep
    \/ Send
    \/ Receive
    \/ Return
    \/ Cancel
    \/ Switch

SpecTwo == InitTwo /\ [][NextTwo]_vars

\* The steps of a started session happen: the name lookup ends with
\* addresses or with NameLookupError, the interval wait ends after the
\* interval, send does not block, the reply await ends with a reply or with
\* the timeout, and the return follows the loop. Nothing forces a call or a
\* cancellation to happen.
Fairness ==
    /\ WF_vars(ResolveReturns)
    /\ WF_vars(ResolveRaises)
    /\ WF_vars(Sleep)
    /\ WF_vars(Send)
    /\ WF_vars(Receive)
    /\ WF_vars(Return)

\* The calls whose replies, if any, all arrive after 1 ms.
InitLive ==
    /\ Init
    /\ \A s \in DOMAIN net : net[s].elapsed <= 1

\* The runs of a call of async_ping2, under the condition above.
SpecLive == InitLive /\ [][SessionNext]_vars /\ Fairness

\* ------------------------------------------------------------------ claims

\* The session has been started and has not ended.
Running == pc \in {"sleep", "send", "recv", "exit"}

\* The sequences whose attempt is over: the loop has moved past them.
ResolvedSeqs == IF pc = "idle" THEN {} ELSE 0..(sequence - 1)

\* The attempt of sequence s is over: the loop has moved past it, or the
\* session was aborted in it.
AttemptOver(s) ==
    \/ s \in ResolvedSeqs
    \/ pc = "aborted" /\ sock = "closed" /\ s = sequence

\* Reply types the specification classifies Success or Informational.
AliveTypes(family) == IF family = 6 THEN {129, 137} ELSE {0, 5}

IsReply(o) == o.kind = "reply"

IsAliveReply(o) == IsReply(o) /\ o.type \in AliveTypes(Family)

IsErrorReply(o) == IsReply(o) /\ o.type \notin AliveTypes(Family)

IsTimeout(o) == o.kind = "receive_raises" /\ o.exc = "TimeoutExceeded"

\* A socket fault of the library, or any other fault of the transport.
IsTransportFault(o) ==
    o.kind \in {"send_raises", "receive_raises"} /\ o.exc # "TimeoutExceeded"

\* C1: in every state of a session 0 <= packetsReceived <= packetsSent <=
\* count, where packetsReceived is the number of round-trip times recorded;
\* the Host returned reports exactly these numbers.
C1_Counters ==
    /\ 0 <= Len(rtts)
    /\ Len(rtts) <= packets_sent
    /\ packets_sent <= count
    /\ pc = "done" =>
         /\ host[1].packets_received = Len(rtts)
         /\ Len(host[1].rtts) = host[1].packets_received
         /\ 0 <= host[1].packets_received
         /\ host[1].packets_received <= host[1].packets_sent
         /\ host[1].packets_sent <= count

\* A session of MaxCount sequences has ended with some packets received and
\* some dropped.
C1_Witness ==
    /\ pc = "done"
    /\ count = MaxCount
    /\ 0 < Len(rtts)
    /\ Len(rtts) < packets_sent

\* C2 (as claimed): once the send or the receive of a sequence has raised a
\* transport fault, the session is aborted with that fault: the loop never
\* moves past it and no Host is returned.
C2_FaultAborts ==
    \A s \in 0..(count - 1) :
       (AttemptOver(s) /\ IsTransportFault(net[s + 1])) =>
          /\ pc = "aborted"
          /\ sequence = s
          /\ error = net[s + 1].exc
          /\ host = <<>>

\* C3 (as claimed): a session that completes all count sequences and returns
\* has packetsSent = count, so the report built from its Host has
\* dropped = count - packetsReceived.
C3_DroppedOfCompleted ==
    pc = "done" =>
       /\ host[1].packets_sent = count
       /\ GetItem(host[1], ITEM_NAME, address, count, catch_messages).dropped
            = count - host[1].packets_received

\* C4: the number of messages is the number of attempts that got a reply of
\* any kind; a timeout adds none and never ends the session: a returned
\* session has gone through all count sequences.
C4_MessagesAreReplies ==
    /\ Len(catch_messages) = Cardinality({s \in ResolvedSeqs : IsReply(net[s + 1])})
    /\ error # "TimeoutExceeded"
    /\ pc = "done" => sequence = count

\* A session has ended in which a timeout was followed by an error reply.
C4_Witness ==
    /\ pc = "done"
    /\ count = 2
    /\ IsTimeout(net[1])
    /\ IsErrorReply(net[2])
    /\ Len(catch_messages) = 1

\* The outcome the specification names for each type, as the exception
\* class that stands for it (None: Success or Informational).
C5_Expected(family, type) ==
    IF family = 6
    THEN CASE type = 1   -> "ICMPv6DestinationUnreachable"
           [] type = 3   -> "ICMPv6TimeExceeded"
           [] type = 129 -> None
           [] type = 137 -> None
           [] OTHER      -> "ICMPError"
    ELSE CASE type = 3   -> "ICMPv4DestinationUnreachable"
           [] type = 11  -> "ICMPv4TimeExceeded"
           [] type = 0   -> None
           [] type = 5   -> None
           [] OTHER      -> "ICMPError"

\* C5: for every family, type and code the classifier raises exactly the
\* error of the table above (none for echo reply and redirect) and, in every
\* case, has appended the label of the family's table for the type, or
\* "Unassigned" for a type the table does not hold.
C5_Classifier ==
    cls.called =>
       /\ cls.raised = C5_Expected(cls.family, cls.type)
       /\ Len(cls.messages) = Len(cls.before) + 1
       /\ SubSeq(cls.messages, 1, Len(cls.before)) = cls.before
       /\ LET table == IF cls.family = 6 THEN MESSAGES_V6 ELSE MESSAGES_V4
              label == cls.messages[Len(cls.messages)]
          IN  IF cls.type \in DOMAIN table
              THEN label = table[cls.type]
              ELSE label = "Unassigned"

\* An IPv4 redirect was classified: nothing raised, "Redirect" recorded.
C5_Witness ==
    /\ cls.called
    /\ cls.family = 4
    /\ cls.type = 5
    /\ cls.raised = None
    /\ cls.messages = Append(cls.before, "Redirect")

\* C6: a reply classified Success or Informational (echo reply or redirect),
\* received by a reply await that is not cancelled, appends exactly one label
\* and exactly one round-trip time (the elapsed time, in milliseconds), raises
\* packetsReceived by one and the number of dropped packets by none, and
\* raises no fault: the loop goes on.
C6_AliveReply ==
    [][(pc = "recv" /\ ~cancelled' /\ IsAliveReply(net[sequence + 1])) =>
         /\ catch_messages' =
              Append(catch_messages,
                     IF net[sequence + 1].type \in {5, 137}
                     THEN (IF Family = 6 THEN "Redirect Message" ELSE "Redirect")
                     ELSE "Echo Reply")
         /\ Len(rtts') = Len(rtts) + 1
         /\ SubSeq(rtts', 1, Len(rtts)) = rtts
         /\ RatEq(rtts'[Len(rtts')], Rat(net[sequence + 1].elapsed, 1))
         /\ Host(address, packets_sent', rtts').packets_received
              = Host(address, packets_sent, rtts).packets_received + 1
         /\ packets_sent' - Len(rtts') = packets_sent - Len(rtts) - 1
         /\ error' = None
         /\ pc' = LoopPc(sequence + 1, count)
         /\ sequence' = sequence + 1]_vars

\* A redirect was the reply to sequence 0: it is recorded and counted as
\* received.
C6_Witness ==
    /\ Running
    /\ sequence = 1
    /\ net[1].kind = "reply"
    /\ net[1].type \in {5, 137}
    /\ Len(rtts) = 1
    /\ Len(catch_messages) = 1
    /\ packets_sent = 1

\* The labels of the error replies the network sends.
C7_Label(family, type) ==
    IF family = 6
    THEN CASE type = 1 -> "Destination Unreachable"
           [] type = 3 -> "Time Exceeded"
           [] type = 4 -> "Parameter Problem"
    ELSE CASE type = 3  -> "Destination Unreachable"
           [] type = 11 -> "Time Exceeded"
           [] type = 12 -> "Parameter Problem"

\* C7: a reply classified Unreachable, TimeExceeded or ProtocolError, received
\* by a reply await that is not cancelled, appends its label, leaves rtts
\* (and so packetsReceived) unchanged, raises no error to the caller and the
\* loop goes on with the next sequence, if any.
C7_ErrorReply ==
    [][(pc = "recv" /\ ~cancelled' /\ IsErrorReply(net[sequence + 1])) =>
         /\ Len(catch_messages') = Len(catch_messages) + 1
         /\ SubSeq(catch_messages', 1, Len(catch_messages)) = catch_messages
         /\ catch_messages'[Len(catch_messages')] =
              C7_Label(Family, net[sequence + 1].type)
         /\ rtts' = rtts
         /\ packets_sent' = packets_sent
         /\ error' = None
         /\ sock' = "open"
         /\ sequence' = sequence + 1
         /\ pc' = IF sequence + 1 < count THEN "sleep" ELSE "exit"]_vars

\* An unreachable reply to sequence 0 was recorded, nothing was received and
\* the session is about to send sequence 1.
C7_Witness ==
    /\ pc = "send"
    /\ sequence = 1
    /\ net[1].kind = "reply"
    /\ catch_messages = <<"Destination Unreachable">>
    /\ rtts = <<>>
    /\ packets_sent = 1
    /\ error = None

\* The invocation of CheckPing.run is over and its configuration was valid.
CheckDone == chk_pc # "idle" /\ chk_error # "ConfigError"

\* The count the invocation resolved.
CheckCount == DictGet(config, "count", DEFAULT_PING_COUNT)

\* The item of the state dict the invocation built.
CheckItem == chk_result[1][TYPE_NAME][1]

\* C8 (as claimed): an invocation in which every sequence is sent and none
\* gets a Success or Informational reply ends with NoCountException carrying
\* the report, with dropped = packetsSent and no minTime and maxTime; an
\* invocation in which some sequence gets such a reply, and no fault occurs,
\* returns the report.
C8_TotalLossRaises ==
    (CheckDone /\ CheckCount <= Len(net)) =>
       /\ (\A s \in 1..CheckCount : IsTimeout(net[s]) \/ IsErrorReply(net[s]))
            => /\ chk_pc = "raised"
               /\ chk_error = "NoCountException"
               /\ CheckItem.dropped = CheckCount
               /\ CheckItem.minTime = <<>>
               /\ CheckItem.maxTime = <<>>
       /\ (/\ \A s \in 1..CheckCount : IsTimeout(net[s]) \/ IsReply(net[s])
           /\ \E s \in 1..CheckCount : IsAliveReply(net[s]))
            => /\ chk_pc = "returned"
               /\ chk_error = None

\* minTime and maxTime of a report are both absent exactly when nothing was
\* received, and ordered when present.
TimesOk(item, received) ==
    /\ (item.minTime = <<>> /\ item.maxTime = <<>>) <=> (received = 0)
    /\ (item.minTime = <<>>) <=> (item.maxTime = <<>>)
    /\ item.minTime # <<>> => RatLeq(item.minTime[1], item.maxTime[1])

\* C9: in the report CheckPing.run builds, and in the report get_item builds
\* from the Host of any completed session, minTime and maxTime are both None
\* iff packetsReceived = 0, and minTime <= maxTime when present.
C9_Times ==
    /\ chk_result # <<>> =>
         TimesOk(CheckItem, Itm(CheckCount).packets_received)
    /\ pc = "done" =>
         TimesOk(GetItem(host[1], ITEM_NAME, address, count, catch_messages),
                 host[1].packets_received)

\* CheckPing.run has returned a report with two different times.
C9_Witness ==
    /\ chk_pc = "returned"
    /\ CheckItem.minTime # <<>>
    /\ CheckItem.maxTime # <<>>
    /\ ~RatEq(CheckItem.minTime[1], CheckItem.maxTime[1])

\* C10 (as claimed): the report an invocation returns, or attaches to
\* NoCountException, is the one built from the Host and the labels of a
\* probe session run for it.
C10_ReportFromSession ==
    (CheckDone /\ chk_result # <<>>) =>
       /\ pc = "done"
       /\ chk_result = <<GetState(host[1], ResolveAddress(config), CheckCount,
                                  catch_messages)>>

\* The interval of the invocation.
CheckInterval == DictGet(config, "interval", DEFAULT_PING_INTERVAL)

\* The invocation of CheckPing.run is over.
CheckEnded == chk_pc # "idle"

\* The count and the interval of the invocation pass the validation.
CheckValid == CheckCount \in 1..9 /\ CheckInterval \in 1..9

\* C11: an invocation of CheckPing.run whose count or interval fails the
\* validation ends with the configuration error before anything else was
\* done: no socket was opened, no request was sent and no report was built;
\* and only such an invocation ends with the configuration error.
C11_ValidationFirst ==
    /\ (CheckEnded /\ ~CheckValid) =>
          /\ chk_pc = "raised"
          /\ chk_error = "ConfigError"
          /\ chk_result = <<>>
          /\ sock = "none"
          /\ packets_sent = 0
          /\ log = <<>>
          /\ awaiting = {}
    /\ chk_error = "ConfigError" => (CheckEnded /\ ~CheckValid)

\* An invocation with a count above the range has ended.
C11_Witness ==
    /\ CheckEnded
    /\ CheckCount > 9
    /\ chk_error = "ConfigError"

\* The positions of the log with an entry of the kind ev.
LogAt(ev) == {i \in 1..Len(log) : log[i].ev = ev}

\* The request of the attempt the session is at.
Current == ICMPRequest(address, id, sequence)

\* C12: in a session at most one request awaits its reply, and it is the one
\* of the current attempt, awaited from its send to its resolution; requests
\* are sent in strictly increasing sequence order within 0..count-1, all with
\* the identifier of the session, each one only after every earlier attempt
\* was resolved; a session that completes with no failed send has sent
\* exactly the sequences 0..count-1.
C12_OneInFlight ==
    /\ Cardinality(awaiting) <= 1
    /\ awaiting = (IF pc = "recv" THEN {Current} ELSE {})
    /\ \A i \in LogAt("send") :
          /\ log[i].sequence \in 0..(count - 1)
          /\ log[i].id = id
          /\ \A j \in LogAt("send") :
                i < j => log[i].sequence < log[j].sequence
          /\ \A n \in 0..(log[i].sequence - 1) :
                \E j \in LogAt("resolved") : j < i /\ log[j].sequence = n
    /\ (pc = "done" /\ \A s \in 0..(count - 1) : net[s + 1].kind # "send_raises")
          => {log[i].sequence : i \in LogAt("send")} = 0..(count - 1)

\* The second request of a session awaits its reply.
C12_Witness ==
    /\ pc = "recv"
    /\ sequence = 1
    /\ Cardinality(LogAt("send")) = 2
    /\ awaiting = {Current}

\* The session has ended: it returned, or an exception left it.
Ended == pc \in {"done", "aborted"}

\* C13: a session holds an open socket exactly while it runs. The socket is
\* opened once, by the call or when the name of the target is resolved, and
\* closed once, by the step that ends the
\* session, whichever that is: the return, a fault propagating from send or
\* receive, or a cancellation at the interval wait or at the reply await;
\* an ended session holds no open socket.
C13_SocketReleased ==
    [][/\ Ended' => sock' # "open"
       /\ Running' <=> sock' = "open"
       /\ sock' # sock =>
            \/ sock = "none" /\ sock' = "open" /\ pc \in {"idle", "resolve"}
            \/ sock = "open" /\ sock' = "closed" /\ Running /\ Ended']_vars

\* A session cancelled in the reply await of its second attempt, after a
\* timeout and an interval wait, has closed its socket.
C13_Witness ==
    /\ pc = "aborted"
    /\ cancelled
    /\ sequence = 1
    /\ IsTimeout(net[1])
    /\ Cardinality(LogAt("send")) = 2
    /\ sock = "closed"

\* C14: the step that delivers a cancellation, at the interval wait or at
\* the reply await (or at the name lookup, before there is a socket), ends
\* the session: it is aborted with CancelledError, it has no Host, its socket
\* if any is closed, and the step sends nothing and records nothing; a cancelled session takes no further step, and no session that
\* was not cancelled ends with CancelledError, so a cancelled session is never
\* taken for a completed one.
C14_CancelTakesEffect ==
    [][/\ cancelled' =>
            /\ pc' = "aborted"
            /\ error' = "CancelledError"
            /\ host' = <<>>
            /\ sock' # "open"
            /\ ~cancelled =>
                 /\ pc \in {"resolve", "sleep", "recv"}
                 /\ pc \in {"sleep", "recv"} =>
                      (sock = "open" /\ sock' = "closed")
            /\ UNCHANGED <<count, sequence, packets_sent, rtts, catch_messages>>
            /\ LogAt("send")' = LogAt("send")
            /\ cancelled => UNCHANGED sess_vars
       /\ ~cancelled' => error' # "CancelledError"]_vars

\* A session cancelled in its interval wait, after a timeout.
C14_Witness ==
    /\ cancelled
    /\ pc = "aborted"
    /\ sequence = 1
    /\ IsTimeout(net[1])
    /\ log[Len(log)] = Resolved(0)
    /\ packets_sent = 1

\* C15: a session never goes back: it is not restarted, its sequence never
\* decreases, it resolves at most count attempts and no sequence twice; and,
\* every reply await ending with a reply or a timeout, a started session
\* eventually ends, either returning its Host after sequence count-1 or
\* aborted by an exception.
C15_Terminates ==
    /\ [][pc # "idle" => (pc' # "idle" /\ sequence' >= sequence
                            /\ count' = count)]_vars
    /\ [](/\ Cardinality(LogAt("resolved")) <= count
          /\ \A i, j \in LogAt("resolved") :
                i < j => log[i].sequence < log[j].sequence)
    /\ (pc = "resolve" \/ Running) ~>
         \/ pc = "done" /\ host # <<>> /\ sequence = count /\ error = None
         \/ pc = "aborted" /\ host = <<>> /\ error # None

\* A session has returned after a timeout in each of its attempts.
C15_Witness ==
    /\ pc = "done"
    /\ count = MaxCount
    /\ Cardinality(LogAt("resolved")) = count
    /\ \A s \in 1..count : IsTimeout(net[s])

\* What a call alone has sent and recorded when the first n attempts on the
\* network behaviour nt are resolved, none of them with a fatal error.
RECURSIVE Alone(_, _, _)
Alone(family, nt, n) ==
    IF n = 0
    THEN [packets_sent |-> 0, rtts |-> <<>>, catch_messages |-> <<>>]
    ELSE LET p == Alone(family, nt, n - 1)
             o == nt[n]
         IN  IF o.kind = "send_raises" THEN p
             ELSE IF o.kind = "receive_raises"
             THEN [p EXCEPT !.packets_sent = @ + 1]
             ELSE [packets_sent   |-> p.packets_sent + 1,
                   rtts           |-> IF o.type \in AliveTypes(family)
                                      THEN Append(p.rtts, Rtt(o.elapsed))
                                      ELSE p.rtts,
                   catch_messages |-> Append(p.catch_messages,
                                             LabelFor(family, o.type))]

\* The call with the parameters and locals l is where it would be alone.
AsAlone(l) ==
    LET family == IF IsIPv6Address(l.address) THEN 6 ELSE 4
        a      == Alone(family, l.net, l.sequence)
    IN  /\ l.pc = "idle" =>
             /\ l.packets_sent = 0
             /\ l.rtts = <<>>
             /\ l.catch_messages = <<>>
             /\ l.log = <<>>
        /\ l.pc \in {"sleep", "send", "exit", "done"} =>
             /\ l.packets_sent = a.packets_sent
             /\ l.rtts = a.rtts
             /\ l.catch_messages = a.catch_messages
        /\ l.pc = "recv" =>
             /\ l.packets_sent = a.packets_sent + 1
             /\ l.rtts = a.rtts
             /\ l.catch_messages = a.catch_messages
        /\ l.pc = "done" =>
             /\ l.sequence = l.count
             /\ l.host = <<Host(l.address, a.packets_sent, a.rtts)>>
        /\ \A i \in 1..Len(l.log) : l.log[i].id = l.id
        /\ l.awaiting \subseteq
             {ICMPRequest(l.address, l.id, l.sequence)}

\* C16: of two calls interleaved at their awaits, each is at every moment
\* where it would be if it ran alone on the same replies: its packets_sent,
\* rtts and messages are those of its own resolved attempts, the Host it
\* returns is built from them, and a call started after the other has ended
\* starts from nothing.
C16_NoInterference ==
    /\ AsAlone(Locals)
    /\ AsAlone(parked)

\* Both calls are suspended in the reply await of their second attempt, each
\* with a message of its first.
C16_Witness ==
    /\ pc = "recv" /\ sequence = 1
    /\ parked.pc = "recv" /\ parked.sequence = 1
    /\ Len(catch_messages) = 1
    /\ Len(parked.catch_messages) = 1
    /\ catch_messages # parked.catch_messages

\* The labels of the replies among the first n attempts on the network
\* behaviour nt, in sequence order.
RECURSIVE LabelsOf(_, _, _)
LabelsOf(family, nt, n) ==
    IF n = 0 THEN <<>>
    ELSE IF nt[n].kind = "reply"
    THEN Append(LabelsOf(family, nt, n - 1), LabelFor(family, nt[n].type))
    ELSE LabelsOf(family, nt, n - 1)

\* C17 (as claimed): the messages of a session are the labels of the replies
\* to its resolved attempts, in sequence order; get_state puts the list it is
\* given into the report unchanged; and the messages of the report
\* CheckPing.run builds are the messages of the session run for it.
C17_ReportMessages ==
    /\ pc # "idle" => catch_messages = LabelsOf(Family, net, sequence)
    /\ pc = "done" =>
         GetState(host[1], address, count, catch_messages)[TYPE_NAME][1].messages
           = catch_messages
    /\ chk_result # <<>> =>
         /\ pc = "done"
         /\ CheckItem.messages = catch_messages

\* The positions of the log where an attempt starts: its send, or its
\* resolution when the send raised.
AttemptStarts ==
    {i \in LogAt("send") \cup LogAt("resolved") :
        i = 1 \/ log[i - 1].ev # "send"}

\* C18: every interval wait is the wait of a sequence greater than 0, comes
\* directly after the resolution of the attempt before it and directly before
\* the send of its own sequence; the attempt of every sequence greater than 0
\* starts directly after its interval wait and that of sequence 0 after none;
\* a session that has completed has waited once for each of the sequences
\* 1..count-1, that is count-1 times, and not otherwise.
C18_IntervalWaits ==
    /\ \A i \in LogAt("sleep") :
          /\ log[i].sequence \in 1..(count - 1)
          /\ i > 1 /\ log[i - 1] = Resolved(log[i].sequence - 1)
          /\ i < Len(log) =>
                log[i + 1] \in {Sent(log[i].sequence), Resolved(log[i].sequence)}
          /\ \A j \in LogAt("sleep") :
                i < j => log[i].sequence < log[j].sequence
    /\ \A i \in AttemptStarts :
          IF log[i].sequence > 0
          THEN i > 1 /\ log[i - 1] = Waited(log[i].sequence)
          ELSE i = 1
    /\ pc = "done" =>
          /\ {log[i].sequence : i \in LogAt("sleep")} = 1..(count - 1)
          /\ count >= 1 => Cardinality(LogAt("sleep")) = count - 1

\* A session of MaxCount sequences has completed.
C18_Witness ==
    /\ pc = "done"
    /\ count = MaxCount
    /\ Cardinality(LogAt("sleep")) = MaxCount - 1
    /\ Cardinality(LogAt("send")) = MaxCount

\* C19: after every step of a session started with an empty message list,
\* len(rtts) <= len(messages) <= packets_sent; the step leaves what was
\* recorded in place and adds at most one message and at most one rtt, an rtt
\* only together with a message, and a message only as it resolves the
\* attempt of one sequence, which it does once.
C19_RttsMessagesSent ==
    [][/\ Len(rtts') <= Len(catch_messages')
       /\ Len(catch_messages') <= packets_sent'
       /\ Len(catch_messages') \in {Len(catch_messages), Len(catch_messages) + 1}
       /\ Len(rtts') \in {Len(rtts), Len(rtts) + 1}
       /\ SubSeq(catch_messages', 1, Len(catch_messages)) = catch_messages
       /\ SubSeq(rtts', 1, Len(rtts)) = rtts
       /\ Len(rtts') > Len(rtts) => Len(catch_messages') > Len(catch_messages)
       /\ Len(catch_messages') > Len(catch_messages) =>
            /\ pc = "recv"
            /\ sequence' = sequence + 1]_vars

\* A session has completed with an rtt and a message of one attempt and a
\* message alone of the other.
C19_Witness ==
    /\ pc = "done"
    /\ Len(rtts) = 1
    /\ Len(catch_messages) = 2
    /\ packets_sent = 2

====
